---- MODULE Spec2Model ----
(***************************************************************************)
(* Email-summarization: the mail ingestor and text normaliser              *)
(* (gmail_fetch.py), the document store upsert, the LLM gateway with the   *)
(* summarise and retrieval-augmented operations (talk_with_docs.py) and    *)
(* the Streamlit shell (streamlit_app.py).                                 *)
(*                                                                         *)
(* Five specifications share the variables; each leaves the variables of   *)
(* the others alone:                                                       *)
(*   Spec        the document store upsert and the Streamlit shell         *)
(*   SpecTalk    summarize_emails and simple_rag over the LLM gateway      *)
(*   SpecNorm    clean_email_text applied to enumerated texts              *)
(*   SpecIngest  get_emails' choice of a body among a message's parts      *)
(*   SpecAuth    authenticate_gmail, statement by statement                *)
(***************************************************************************)
EXTENDS Integers, Sequences, FiniteSets, TLC

VARIABLES
    store,      \* the "emails" collection: sequence of stored documents
    now,        \* the wall clock, in half days
    ragCache,   \* st.cache_data of simple_rag: argument tuple -> result
    last,       \* what the last operation did (observation only)
    nInput,     \* SpecNorm: the text handed to clean_email_text
    nText,      \* SpecNorm: the current text
    nPrev,      \* SpecNorm: the text before the last pass
    nPasses,    \* SpecNorm: how many times clean_email_text was applied
    mailbox,    \* SpecIngest: the messages the list call returns
    email_data, \* SpecIngest: the records built so far
    tokenFile,  \* SpecAuth: token.json ("absent" or the credentials in it)
    frames,     \* SpecAuth: the call stack of authenticate_gmail
    authLog,    \* SpecAuth: the side effects of the current outermost call
    authResult, \* SpecAuth: how the outermost call ended
    authEnv     \* SpecAuth: credentials.json on disk, the grant at the provider

vars == <<store, now, ragCache, last, nInput, nText, nPrev, nPasses,
          mailbox, email_data, tokenFile, frames, authLog, authResult,
          authEnv>>

storeVars == <<store, now, ragCache, last>>
normVars == <<nInput, nText, nPrev, nPasses>>
ingestVars == <<mailbox, email_data>>
authVars == <<tokenFile, frames, authLog, authResult, authEnv>>

(***************************************************************************)
(* Text.  A text is a sequence of characters; a character is a one-element *)
(* name.  "NL" is the newline, "SP" the blank, "ZW" one of the invisible   *)
(* characters of the class in line 51.                                     *)
(***************************************************************************)
Ws == {"SP", "NL"}
Rule == {"-", "|"}
Letters == {"a"}
Invisible == {"ZW"}

\* The marker heading of line 52, "# REPO of the week", abbreviated to a
\* hash, a blank and a letter: it keeps an interior blank, so that the
\* whitespace steps before the truncation can complete it.
Marker == <<"#", "SP", "a">>

\* First index j >= i with t[j] outside S, or Len(t)+1.
RECURSIVE RunEnd(_, _, _)
RunEnd(t, i, S) ==
    IF i > Len(t) \/ t[i] \notin S THEN i ELSE RunEnd(t, i + 1, S)

\* First index j >= i with t[j] = c, or Len(t)+1.
RECURSIVE FirstOf(_, _, _)
FirstOf(t, i, c) ==
    IF i > Len(t) \/ t[i] = c THEN i ELSE FirstOf(t, i + 1, c)

\* Largest p in a..b-1 with t[p] = "NL", or 0.
LastNL(t, a, b) ==
    LET P == {p \in a..(b - 1) : t[p] = "NL"}
    IN IF P = {} THEN 0 ELSE CHOOSE p \in P : \A q \in P : q <= p

Slice(t, a, b) == [k \in 1..(b - a + 1) |-> t[a + k - 1]]

\* re.sub(r"[-|]+\s*\n\s*[-|]+", "", text)
RECURSIVE SubRuleLines(_, _)
SubRuleLines(t, i) ==
    IF i > Len(t) THEN <<>>
    ELSE IF t[i] \in Rule
    THEN LET j == RunEnd(t, i, Rule)
             k == RunEnd(t, j, Ws)
         IN IF LastNL(t, j, k) > 0 /\ k <= Len(t) /\ t[k] \in Rule
            THEN SubRuleLines(t, RunEnd(t, k, Rule))
            ELSE <<t[i]>> \o SubRuleLines(t, i + 1)
    ELSE <<t[i]>> \o SubRuleLines(t, i + 1)

\* re.sub(r"[|]", "", text)
SubPipes(t) == SelectSeq(t, LAMBDA c : c # "|")

\* re.sub(r"\n\s*\n", "\n", text)
RECURSIVE SubBlankLines(_, _)
SubBlankLines(t, i) ==
    IF i > Len(t) THEN <<>>
    ELSE IF t[i] = "NL"
    THEN LET k == RunEnd(t, i + 1, Ws)
             p == LastNL(t, i + 1, k)
         IN IF p > 0
            THEN <<"NL">> \o SubBlankLines(t, p + 1)
            ELSE <<t[i]>> \o SubBlankLines(t, i + 1)
    ELSE <<t[i]>> \o SubBlankLines(t, i + 1)

\* re.sub(r"^\s*-+\s*$", "", text, flags=re.MULTILINE): ^ holds at the start
\* and after a newline, $ at the end and before a newline.
RECURSIVE SubHyphenLines(_, _)
SubHyphenLines(t, i) ==
    IF i > Len(t) THEN <<>>
    ELSE LET j == RunEnd(t, i, Ws)
             k == RunEnd(t, j, {"-"})
             m == RunEnd(t, k, Ws)
             e == IF m > Len(t) THEN m ELSE LastNL(t, k, m)
         IN IF (i = 1 \/ t[i - 1] = "NL") /\ k > j /\ e > 0
            THEN SubHyphenLines(t, e)
            ELSE <<t[i]>> \o SubHyphenLines(t, i + 1)

\* re.sub(r'\[([^\]]+)\]\([^)]+\)', r'\1', text)
RECURSIVE SubLinks(_, _)
SubLinks(t, i) ==
    IF i > Len(t) THEN <<>>
    ELSE IF t[i] = "["
    THEN LET j == FirstOf(t, i + 1, "]")
             k == FirstOf(t, j + 2, ")")
         IN IF j >= i + 2 /\ j + 1 <= Len(t) /\ t[j + 1] = "("
               /\ k >= j + 3 /\ k <= Len(t)
            THEN Slice(t, i + 1, j - 1) \o SubLinks(t, k + 1)
            ELSE <<t[i]>> \o SubLinks(t, i + 1)
    ELSE <<t[i]>> \o SubLinks(t, i + 1)

\* re.sub(r'&[a-z]+;', ' ', text)
RECURSIVE SubEntities(_, _)
SubEntities(t, i) ==
    IF i > Len(t) THEN <<>>
    ELSE IF t[i] = "&"
    THEN LET j == RunEnd(t, i + 1, Letters)
         IN IF j >= i + 2 /\ j <= Len(t) /\ t[j] = ";"
            THEN <<"SP">> \o SubEntities(t, j + 1)
            ELSE <<t[i]>> \o SubEntities(t, i + 1)
    ELSE <<t[i]>> \o SubEntities(t, i + 1)

\* re.sub(r'\s{2,}', ' ', text)
RECURSIVE SubSpaces(_, _)
SubSpaces(t, i) ==
    IF i > Len(t) THEN <<>>
    ELSE IF t[i] \in Ws
    THEN LET k == RunEnd(t, i, Ws)
         IN IF k - i >= 2
            THEN <<"SP">> \o SubSpaces(t, k)
            ELSE <<t[i]>> \o SubSpaces(t, i + 1)
    ELSE <<t[i]>> \o SubSpaces(t, i + 1)

\* re.sub(r'[​‌‍﻿­]', '', text)
SubInvisible(t) == SelectSeq(t, LAMBDA c : c \notin Invisible)

MarkerAt(t, i) ==
    /\ i + Len(Marker) - 1 <= Len(t)
    /\ \A k \in 1..Len(Marker) : t[i + k - 1] = Marker[k]

\* re.split(r'(?=# REPO of the week)', text)[0]: the text before the first
\* place the marker starts (the empty text when it starts the text).
SplitMarker(t) ==
    LET P == {i \in 1..Len(t) : MarkerAt(t, i)}
    IN IF P = {} THEN t
       ELSE SubSeq(t, 1, (CHOOSE i \in P : \A q \in P : i <= q) - 1)

\* str.strip()
RECURSIVE Strip(_)
Strip(t) ==
    IF t = <<>> THEN t
    ELSE IF Head(t) \in Ws THEN Strip(Tail(t))
    ELSE IF t[Len(t)] \in Ws THEN Strip(SubSeq(t, 1, Len(t) - 1))
    ELSE t

\* The first four rewrites of clean_email_text: rule lines, pipes, blank
\* lines, hyphen-only lines.
CleanLines(t) ==
    SubHyphenLines(SubBlankLines(SubPipes(SubRuleLines(t, 1)), 1), 1)

\* The last rewrites: whitespace runs, invisible characters, the marker,
\* the trim.
CleanTail(t) == Strip(SplitMarker(SubInvisible(SubSpaces(t, 1))))

\* clean_email_text with the entity rewrite moved behind the whitespace
\* collapse (lines 49 and 50 exchanged).
clean_email_text_entities_late(t) ==
    Strip(SplitMarker(SubInvisible(
        SubEntities(SubSpaces(SubLinks(CleanLines(t), 1), 1), 1))))

clean_email_text(t) ==
    CleanTail(SubEntities(SubLinks(CleanLines(t), 1), 1))

(***************************************************************************)
(* SpecNorm: clean_email_text applied again and again to one text.         *)
(***************************************************************************)
MaxLen == 4

Alphabet == {"a", "-", "|", "NL", "SP", "[", "]", "(", ")", "&", ";", "ZW", "#"}

Texts == UNION {[1..n -> Alphabet] : n \in 0..MaxLen}

\* Longer sample texts: a nested markdown link, a link around a hyphen, an
\* entity between hyphen lines, a rule block, a marker completed by the
\* whitespace collapse, blanks around an invisible character, an entity
\* next to a blank.
SampleTexts ==
    { <<"[", "[", "a", "]", "(", "a", ")", "]", "(", "a", ")">>,
      <<"a", "NL", "[", "-", "]", "(", "a", ")", "NL", "a">>,
      <<"a", "NL", "-", "&", "a", ";", "NL", "a">>,
      <<"a", "|", "-", "-", "|", "NL", "|", "-", "-", "|", "NL", "a">>,
      <<"a", "#", "SP", "SP", "a", "a">>,
      <<"a", "SP", "ZW", "SP", "a">>,
      <<"a", "&", "a", ";", "SP", "|", "a">> }

InitNorm ==
    /\ nInput \in Texts \cup SampleTexts
    /\ nText = nInput
    /\ nPrev = nInput
    /\ nPasses = 0
    /\ store = <<>> /\ now = 0 /\ ragCache = {} /\ last = [op |-> "none"]
    /\ mailbox = <<>> /\ email_data = <<>>
    /\ tokenFile = "absent" /\ frames = <<>> /\ authLog = <<>>
    /\ authResult = "none"
    /\ authEnv = [credentials_json |-> TRUE, revoked |-> FALSE]

MaxPasses == 2

Normalize ==
    /\ nPasses < MaxPasses
    /\ nPrev' = nText
    /\ nText' = clean_email_text(nText)
    /\ nPasses' = nPasses + 1
    /\ UNCHANGED <<nInput, storeVars, ingestVars, authVars>>

NextNorm == Normalize

SpecNorm == InitNorm /\ [][NextNorm]_vars

Chars(t) == {t[i] : i \in 1..Len(t)}

\* C6 (as claimed): normalisation is idempotent: cleaning a text that was
\* already cleaned returns it unchanged, for every input text.
C6_Idempotent == nPasses >= 2 => nText = nPrev

\* C6 (amended): cleaning an already cleaned text returns it unchanged when
\* the input text holds no hyphen, no opening square bracket and no
\* invisible character.
C6_IdempotentWithoutHyphenLinkInvisible ==
    (nPasses >= 2 /\ Chars(nInput) \cap {"-", "[", "ZW"} = {})
        => nText = nPrev

\* A text with pipes and an entity code was cleaned twice; the first pass
\* changed it and the second did not.
C6_Witness ==
    /\ nPasses = 2
    /\ Chars(nInput) \cap {"-", "[", "ZW"} = {}
    /\ {"|", "&"} \subseteq Chars(nInput)
    /\ nPrev # nInput
    /\ nText = nPrev

(***************************************************************************)
(* SpecIngest: get_emails builds one record per message of the mailbox.    *)
(* A part is [mimeType, data]; data is None or the base64 of a text.       *)
(***************************************************************************)
\* Python's None.
None == [none |-> TRUE]

\* Payload texts.  "<html>" and "<HTML>" stand for the root tag.
PayloadTexts ==
    { <<"a">>,
      <<"SP", "a", "NL", "NL", "a">>,
      <<"<HTML>", "a", "|">> }

\* base64.urlsafe_b64encode / urlsafe_b64decode, as a wrapping.
B64(t) == [b64 |-> t]
urlsafe_b64decode(d) == d.b64

MimeTypes == {"text/html", "text/plain", "image/png"}

Parts == [mimeType : MimeTypes, data : {None} \cup {B64(t) : t \in PayloadTexts}]

MaxParts == 2

PartLists == UNION {[1..n -> Parts] : n \in 0..MaxParts}

\* A message: its id, its parts, and the body of a message without parts.
Messages ==
    [id : {1}, parts : PartLists, body : {None} \cup {B64(t) : t \in PayloadTexts}]

\* str.lower() on the characters of the model.
Lower(t) == [i \in 1..Len(t) |-> IF t[i] = "<HTML>" THEN "<html>" ELSE t[i]]

\* html2text.HTML2Text().handle(html).strip() on the texts of the model:
\* the tags go, the text stays, the result is trimmed.
extract_clean_text(t) ==
    Strip(SelectSeq(t, LAMBDA c : c \notin {"<html>", "<HTML>"}))

\* The loop over the parts (lines 139-153), from part i on; acc holds
\* html_body, html_found, plain_text_body, plain_text_found.
RECURSIVE ScanParts(_, _, _)
ScanParts(parts, i, acc) ==
    IF i > Len(parts) THEN acc
    ELSE LET part == parts[i]
         IN IF part.data = None THEN ScanParts(parts, i + 1, acc)
            ELSE IF part.mimeType = "text/html"
            THEN ScanParts(parts, i + 1,
                    [acc EXCEPT !.html_body = urlsafe_b64decode(part.data),
                                !.html_found = TRUE])
            ELSE IF part.mimeType = "text/plain"
            THEN ScanParts(parts, i + 1,
                    [acc EXCEPT !.plain_text_body = urlsafe_b64decode(part.data),
                                !.plain_text_found = TRUE])
            ELSE ScanParts(parts, i + 1, acc)

NoBody ==
    [html_body |-> <<>>, html_found |-> FALSE,
     plain_text_body |-> <<>>, plain_text_found |-> FALSE]

\* Lines 130-165: the bodies found in a message.
FindBodies(msg) ==
    IF msg.parts # <<>> THEN ScanParts(msg.parts, 1, NoBody)
    ELSE IF msg.body = None THEN NoBody
    ELSE LET decoded_data == urlsafe_b64decode(msg.body)
         IN IF \E i \in 1..Len(decoded_data) : Lower(decoded_data)[i] = "<html>"
            THEN [NoBody EXCEPT !.html_body = decoded_data, !.html_found = TRUE]
            ELSE [NoBody EXCEPT !.plain_text_body = decoded_data,
                                !.plain_text_found = TRUE]

\* The choice with the plain-text branch tested first.
ChooseBodyPlainFirst(found) ==
    IF found.plain_text_found THEN found.plain_text_body
    ELSE IF found.html_found THEN found.html_body
    ELSE <<>>

\* Lines 167-173: "Choose best version to display".
ChooseBody(found) ==
    IF found.html_found THEN found.html_body
    ELSE IF found.plain_text_found THEN found.plain_text_body
    ELSE <<>>

\* Lines 175-183: the record of one message (the headers are left out).
EmailRecord(msg) ==
    LET found == FindBodies(msg)
        body == ChooseBody(found)
    IN [id |-> msg.id,
        raw |-> body,
        body |-> clean_email_text(extract_clean_text(Strip(body))),
        plain_text_available |-> found.plain_text_found,
        html_available |-> found.html_found]

InitIngest ==
    /\ mailbox \in {<<m>> : m \in Messages}
    /\ email_data = <<>>
    /\ store = <<>> /\ now = 0 /\ ragCache = {} /\ last = [op |-> "none"]
    /\ nInput = <<>> /\ nText = <<>> /\ nPrev = <<>> /\ nPasses = 0
    /\ tokenFile = "absent" /\ frames = <<>> /\ authLog = <<>>
    /\ authResult = "none"
    /\ authEnv = [credentials_json |-> TRUE, revoked |-> FALSE]

\* get_emails, lines 112-185: one record per listed message.
get_emails ==
    /\ email_data = <<>>
    /\ email_data' = [i \in 1..Len(mailbox) |-> EmailRecord(mailbox[i])]
    /\ UNCHANGED <<mailbox, storeVars, normVars, authVars>>

NextIngest == get_emails

SpecIngest == InitIngest /\ [][NextIngest]_vars

\* The parts of a message that carry data of a given MIME type.
WithData(msg, mime) ==
    {i \in 1..Len(msg.parts) :
        msg.parts[i].mimeType = mime /\ msg.parts[i].data # None}

Normalized(d) == clean_email_text(extract_clean_text(Strip(urlsafe_b64decode(d))))

TokenStates == {"absent", "valid", "expired", "expired_norefresh", "invalid"}

\* The recursion of line 76 is cut at this depth.
MaxDepth == 3

Top == frames[Len(frames)]

SetTop(f) == [frames EXCEPT ![Len(frames)] = f]

InitAuth ==
    /\ tokenFile \in TokenStates
    /\ frames = <<>>
    /\ authLog = <<>>
    /\ authResult = "none"
    /\ authEnv \in [credentials_json : BOOLEAN, revoked : BOOLEAN]
    /\ store = <<>> /\ now = 0 /\ ragCache = {} /\ last = [op |-> "none"]
    /\ nInput = <<>> /\ nText = <<>> /\ nPrev = <<>> /\ nPasses = 0
    /\ mailbox = <<>> /\ email_data = <<>>

\* A caller (the shell, or the module run as a script) calls the function.
AuthCall ==
    /\ frames = <<>>
    /\ frames' = <<[pc |-> "load", creds |-> "None"]>>
    /\ authLog' = <<>>
    /\ authResult' = "running"
    /\ UNCHANGED <<tokenFile, authEnv,
                 storeVars, normVars, ingestVars>>

\* Lines 64-67: creds = None, or the credentials of token.json.
AuthLoad ==
    /\ frames # <<>> /\ Top.pc = "load"
    /\ frames' = SetTop([pc |-> "check",
                         creds |-> IF tokenFile = "absent" THEN "None"
                                   ELSE tokenFile])
    /\ UNCHANGED <<tokenFile, authLog, authResult, authEnv,
                 storeVars, normVars, ingestVars>>

\* Lines 69-70 and 77: which branch is taken.
AuthBranch(creds) ==
    IF creds = "valid" THEN "build"
    ELSE IF creds \in {"expired"} THEN "refresh"
    ELSE "flow"

AuthCheck ==
    /\ frames # <<>> /\ Top.pc = "check"
    /\ frames' = SetTop([Top EXCEPT !.pc = AuthBranch(Top.creds)])
    /\ UNCHANGED <<tokenFile, authLog, authResult, authEnv,
                 storeVars, normVars, ingestVars>>

\* Line 72: creds.refresh(Request()) succeeds.
AuthRefreshOk ==
    /\ frames # <<>> /\ Top.pc = "refresh"
    /\ ~authEnv.revoked
    /\ frames' = SetTop([pc |-> "write", creds |-> "valid"])
    /\ authLog' = Append(authLog, "refresh")
    /\ UNCHANGED <<tokenFile, authResult, authEnv,
                 storeVars, normVars, ingestVars>>

\* Lines 72-74: creds.refresh(Request()) raises RefreshError.
AuthRefreshError ==
    /\ frames # <<>> /\ Top.pc = "refresh"
    /\ authEnv.revoked
    /\ frames' = SetTop([Top EXCEPT !.pc = "remove"])
    /\ authLog' = Append(authLog, "RefreshError")
    /\ UNCHANGED <<tokenFile, authResult, authEnv,
                 storeVars, normVars, ingestVars>>

\* The stale token left in place.
RemoveTokenKept(file) == file

\* Line 75: os.remove("token.json").
RemoveToken(file) == "absent"

AuthRemove ==
    /\ frames # <<>> /\ Top.pc = "remove"
    /\ tokenFile' = RemoveToken(tokenFile)
    /\ frames' = SetTop([Top EXCEPT !.pc = "recurse"])
    /\ authLog' = Append(authLog, "remove")
    /\ UNCHANGED <<authResult, authEnv,
                 storeVars, normVars, ingestVars>>

\* Line 76: return authenticate_gmail(), the inner call's frame on top.
AuthRecurse ==
    /\ frames # <<>> /\ Top.pc = "recurse"
    /\ Len(frames) < MaxDepth
    /\ frames' = Append(SetTop([Top EXCEPT !.pc = "return"]),
                        [pc |-> "load", creds |-> "None"])
    /\ UNCHANGED <<tokenFile, authLog, authResult, authEnv,
                 storeVars, normVars, ingestVars>>

\* Lines 78-79: the interactive flow hands out fresh credentials.
AuthFlowOk ==
    /\ frames # <<>> /\ Top.pc = "flow"
    /\ authEnv.credentials_json
    /\ authEnv' = [authEnv EXCEPT !.revoked = FALSE]
    /\ frames' = SetTop([pc |-> "write", creds |-> "valid"])
    /\ authLog' = Append(authLog, "flow")
    /\ UNCHANGED <<tokenFile, authResult,
                 storeVars, normVars, ingestVars>>

\* Lines 78-79: the flow raises (no credentials.json, consent refused);
\* nothing catches it.
AuthFlowRaises ==
    /\ frames # <<>> /\ Top.pc = "flow"
    /\ frames' = <<>>
    /\ authLog' = Append(authLog, "flow_raised")
    /\ authResult' = "raised"
    /\ UNCHANGED <<tokenFile, authEnv,
                 storeVars, normVars, ingestVars>>

\* Lines 81-82: token.json is written.
AuthWrite ==
    /\ frames # <<>> /\ Top.pc = "write"
    /\ tokenFile' = Top.creds
    /\ frames' = SetTop([Top EXCEPT !.pc = "build"])
    /\ authLog' = Append(authLog, "write")
    /\ UNCHANGED <<authResult, authEnv,
                 storeVars, normVars, ingestVars>>

\* Line 84: the client is built and returned; every caller below is at
\* line 76 and returns it in turn.
AuthBuild ==
    /\ frames # <<>> /\ Top.pc = "build"
    /\ frames' = <<>>
    /\ authLog' = Append(authLog, "build")
    /\ authResult' = "service"
    /\ UNCHANGED <<tokenFile, authEnv,
                 storeVars, normVars, ingestVars>>

\* Between two calls the stored token runs out, or loses its validity.
TokenAges ==
    /\ frames = <<>>
    /\ tokenFile = "valid"
    /\ tokenFile' \in {"expired", "expired_norefresh", "invalid"}
    /\ authLog' = <<>>
    /\ authResult' = "none"
    /\ UNCHANGED <<frames, authEnv,
                 storeVars, normVars, ingestVars>>

NextAuth ==
    \/ AuthCall \/ AuthLoad \/ AuthCheck \/ AuthRefreshOk
    \/ AuthRefreshError \/ AuthRemove \/ AuthRecurse \/ AuthFlowOk
    \/ AuthFlowRaises \/ AuthWrite \/ AuthBuild \/ TokenAges

SpecAuth == InitAuth /\ [][NextAuth]_vars

IsPrefix(s, t) == Len(s) <= Len(t) /\ SubSeq(t, 1, Len(s)) = s

RefreshFailedRun == <<"RefreshError", "remove", "flow", "write", "build">>

\* C7: once the refresh of an expired stored token has failed, the call does
\* exactly this and in this order: delete the token file, run the
\* interactive flow once (no second refresh, no second flow), write a fresh
\* token file, return the client; the file is absent from the deletion to
\* the write, and holds the fresh credentials when the client is returned.
C7_RefreshFailureReauthOnce ==
    (authLog # <<>> /\ authLog[1] = "RefreshError")
        => /\ \/ IsPrefix(authLog, RefreshFailedRun)
              \/ authLog = <<"RefreshError", "remove", "flow_raised">>
           /\ (Len(authLog) \in 2..3 => tokenFile = "absent")
           /\ (authResult = "service"
                => authLog = RefreshFailedRun /\ tokenFile = "valid")

\* The client was returned after a failed refresh.
C7_Witness ==
    /\ authResult = "service"
    /\ authLog = RefreshFailedRun
    /\ tokenFile = "valid"

(***************************************************************************)
(* Spec: the document store and the operations over it.                    *)
(*                                                                         *)
(* Dates.  get_emails stores strftime("%d:%m:%Y") of a day, summarize      *)
(* parses it back.  Day 0 of the model is 30 January 2025, so that the     *)
(* days of the model cross a month's end.  The clock counts half days:     *)
(* midnight of day d is 2*d.                                               *)
(***************************************************************************)
MaxDay == 1

Days == 0..MaxDay

\* date_obj.strftime("%d:%m:%Y"), as <<day, month, year>>.
strftime(d) ==
    IF d + 30 <= 31 THEN <<d + 30, 1, 2025>> ELSE <<d + 30 - 31, 2, 2025>>

\* datetime.strptime(metadata["date"], "%d:%m:%Y"), in half days.
strptime(date) ==
    2 * ((IF date[2] = 1 THEN date[1] ELSE 31 + date[1]) - 30)

MaxIds == 2

Ids == 1..MaxIds

Bodies == {"b1", "b2"}

\* The records get_emails hands to the store (the flags are left out),
\* dated on the first or the last day of the model.
Emails ==
    [id : Ids, subject : {"s"}, from : {"f"}, body : Bodies,
     date : {strftime(0), strftime(MaxDay)}]

MaxBatch == 2

EmailLists == UNION {[1..n -> Emails] : n \in 0..MaxBatch}

StoredIds(st) == {st[i].id : i \in 1..Len(st)}

\* collection.get(ids=ids, include=[])["ids"]
collection_get_ids(st, ids) ==
    StoredIds(st) \cap {ids[i] : i \in 1..Len(ids)}

\* Line 202 without the test against the stored ids.
new_emails_unfiltered(st, emails) == emails

\* Lines 196-202: the records whose id the store does not hold.
new_emails(st, emails) ==
    LET ids == [i \in 1..Len(emails) |-> emails[i].id]
        existing_ids_set == collection_get_ids(st, ids)
    IN SelectSeq(emails, LAMBDA email : email.id \notin existing_ids_set)

\* Lines 207-209: the document, id and metadata of one record.
StoredDocument(email) ==
    [id |-> email.id,
     document |-> email.body,
     metadata |-> [subject |-> email.subject, from |-> email.from,
                   date |-> email.date]]

HasDuplicateIds(docs) ==
    \E i, j \in 1..Len(docs) : i # j /\ docs[i].id = docs[j].id

\* collection.add of the store library: a batch that repeats an id is
\* refused (DuplicateIDError); a document whose id is stored is ignored.
collection_add(st, docs) ==
    IF HasDuplicateIds(docs)
    THEN [store |-> st, outcome |-> "DuplicateIDError"]
    ELSE [store |-> st \o SelectSeq(docs, LAMBDA d : d.id \notin StoredIds(st)),
          outcome |-> "returned"]

\* collection.upsert of the store library: a stored document with the same
\* id is replaced.
collection_upsert(st, docs) ==
    IF HasDuplicateIds(docs)
    THEN [store |-> st, outcome |-> "DuplicateIDError"]
    ELSE LET ids == {docs[i].id : i \in 1..Len(docs)}
             New(id) == CHOOSE d \in {docs[i] : i \in 1..Len(docs)} : d.id = id
         IN [store |->
                [i \in 1..Len(st) |-> IF st[i].id \in ids THEN New(st[i].id)
                                      ELSE st[i]]
                \o SelectSeq(docs, LAMBDA d : d.id \notin StoredIds(st)),
             outcome |-> "returned"]

\* updated_chromadb writing every incoming record with collection.upsert.
updated_chromadb_overwriting(st, emails, strict) ==
    LET docs == [i \in 1..Len(emails) |-> StoredDocument(emails[i])]
        added == collection_upsert(st, docs)
    IN [store |-> added.store, outcome |-> added.outcome,
        submitted |-> Len(docs), message |-> "Database was updated!"]

\* updated_chromadb, lines 196-213.  strict: the store library refuses an
\* empty list of ids in collection.get (some versions do, some do not).
updated_chromadb(st, emails, strict) ==
    IF emails = <<>> /\ strict
    THEN [store |-> st, outcome |-> "ValueError", submitted |-> 0,
          message |-> "none"]
    ELSE LET new == new_emails(st, emails)
         IN IF new # <<>>
            THEN LET docs == [i \in 1..Len(new) |-> StoredDocument(new[i])]
                     added == collection_add(st, docs)
                 IN [store |-> added.store, outcome |-> added.outcome,
                     submitted |-> Len(docs),
                     message |-> IF added.outcome = "returned"
                                 THEN "Database was updated!" ELSE "none"]
            ELSE [store |-> st, outcome |-> "returned", submitted |-> 0,
                  message |-> "Database was not updated! Nothing new :("]

(***************************************************************************)
(* The LLM gateway.  failures: how many calls of the hosted model raise    *)
(* before one succeeds.  A call of get_response_from_llm binds its         *)
(* positional arguments to gemini_client, prompt, system_prompt,           *)
(* generation_config (required) and sleep_time (defaulted).                *)
(***************************************************************************)
\* Parameters without a default in the signature.
RequiredArgs == 4

\* Positional arguments of the calls in summarize_emails and simple_rag.
CallerArgs == 4

\* Positional arguments of the call in the except block.
RetryArgs == 3

MaxFailures == 2

ResponseText == [type |-> "str", value |-> "generated text", len |-> 14]

\* get_response_from_llm, lines 11-40, called with nargs positional
\* arguments: [outcome, text, calls of the hosted model, sleeps].
RECURSIVE get_response_from_llm(_, _)
get_response_from_llm(nargs, failures) ==
    IF nargs < RequiredArgs
    THEN [outcome |-> "TypeError", text |-> None, calls |-> 0, sleeps |-> 0]
    ELSE IF failures = 0
    THEN [outcome |-> "returned", text |-> ResponseText, calls |-> 1,
          sleeps |-> 0]
    ELSE LET inner == get_response_from_llm(RetryArgs, failures - 1)
         IN [outcome |-> IF inner.outcome = "returned"
                         THEN "UnboundLocalError" ELSE inner.outcome,
             text |-> None,
             calls |-> 1 + inner.calls,
             sleeps |-> 1 + inner.sleeps]

Str(value, len) == [type |-> "str", value |-> value, len |-> len]

Tuple(items) == [type |-> "tuple", items |-> items]

NothingMsgLen == 64

NothingMsg ==
    Str("You have no documents to summarize! Please add some to database!",
        NothingMsgLen)

\* len(tokenizer.encode(prompt)), a Python int: one token for each piece
\* of the prompt.
CountTokens(prompt) == [type |-> "int", value |-> Len(prompt)]

\* Lines 60-67: the documents dated on or after the cutoff.
Qualifying(st, clock, timedelta_int) ==
    LET date_timedelta_days == clock - 2 * timedelta_int
        kept == SelectSeq(st, LAMBDA d :
                    strptime(d.metadata.date) >= date_timedelta_days)
    IN [i \in 1..Len(kept) |-> kept[i].document]

\* The rest of an operation once its prompt is built (lines 71-82 and
\* 114-124): the gateway call, then the pair that is returned.
Respond(prompt, count_tokens, failures) ==
    LET gw == get_response_from_llm(CallerArgs, failures)
    IN IF gw.outcome # "returned"
       THEN [outcome |-> gw.outcome, ret |-> None, calls |-> gw.calls,
             sleeps |-> gw.sleeps]
       ELSE [outcome |-> "returned",
             ret |-> Tuple(<<gw.text,
                             IF count_tokens THEN CountTokens(prompt) ELSE None>>),
             calls |-> gw.calls, sleeps |-> gw.sleeps]

\* summarize_emails without the test of line 68.
summarize_emails_unguarded(st, clock, timedelta_int, count_tokens, failures) ==
    Respond(<<"Summarize documents:">> \o Qualifying(st, clock, timedelta_int),
            count_tokens, failures)

\* summarize_emails, lines 57-82.
summarize_emails(st, clock, timedelta_int, count_tokens, failures) ==
    LET docs == Qualifying(st, clock, timedelta_int)
    IN IF docs = <<>>
       THEN [outcome |-> "returned", ret |-> NothingMsg, calls |-> 0,
             sleeps |-> 0]
       ELSE Respond(<<"Summarize documents:">> \o docs, count_tokens, failures)

\* simple_rag's body with a test for an empty result in front of the
\* gateway call.
rag_body_guarded(query, documents, count_tokens, failures) ==
    IF documents = <<>>
    THEN [outcome |-> "returned", ret |-> NothingMsg, calls |-> 0, sleeps |-> 0]
    ELSE Respond(<<"Question:", query, "Retrieved documents:">> \o documents,
                 count_tokens, failures)

\* simple_rag, lines 112-124, given the documents the query returned.
rag_body(query, documents, count_tokens, failures) ==
    Respond(<<"Question:", query, "Retrieved documents:">> \o documents,
            count_tokens, failures)

\* The sequences of k distinct places of the store: the orders in which
\* the nearest-neighbour query may return k documents.
Neighbours(st, k) ==
    {o \in [1..k -> 1..Len(st)] : \A i, j \in 1..k : i # j => o[i] # o[j]}

Min(a, b) == IF a <= b THEN a ELSE b

\* `response, num_tokens = value` (streamlit_app.py lines 70 and 77): a
\* tuple or a string unpacks into two names only when it has two items.
Unpack(value) ==
    IF value.type = "tuple"
    THEN IF Len(value.items) = 2
         THEN [outcome |-> "returned", response |-> value.items[1],
               num_tokens |-> value.items[2]]
         ELSE [outcome |-> "ValueError"]
    ELSE IF value.len = 2
         THEN [outcome |-> "returned", response |-> Str("first character", 1),
               num_tokens |-> Str("second character", 1)]
         ELSE [outcome |-> "ValueError"]

(***************************************************************************)
(* Spec: the store under upserts, and the Streamlit script.                *)
(***************************************************************************)
Idle == [op |-> "none"]

Init ==
    /\ store = <<>>
    /\ now = 0
    /\ ragCache = {}
    /\ last = Idle
    /\ nInput = <<>> /\ nText = <<>> /\ nPrev = <<>> /\ nPasses = 0
    /\ mailbox = <<>> /\ email_data = <<>>
    /\ tokenFile = "absent" /\ frames = <<>> /\ authLog = <<>>
    /\ authResult = "none"
    /\ authEnv = [credentials_json |-> TRUE, revoked |-> FALSE]

\* Every incoming record has an id the store holds.
AllKnown(st, emails) ==
    \A i \in 1..Len(emails) : emails[i].id \in StoredIds(st)

\* Some incoming record has a stored id and another text or other metadata
\* than the stored document.
Conflict(st, emails) ==
    \E i \in 1..Len(emails), k \in 1..Len(st) :
        st[k].id = emails[i].id /\ st[k] # StoredDocument(emails[i])

\* gmail_fetch.py run as a script (lines 215-221): the fetched records are
\* handed to updated_chromadb.
Upsert ==
    \E emails \in EmailLists :
      \E strict \in IF emails = <<>> THEN BOOLEAN ELSE {FALSE} :
        \E r \in {updated_chromadb(store, emails, strict)} :
           /\ store' = r.store
           /\ last' = [op |-> "upsert",
                       all_known |-> AllKnown(store, emails),
                       conflict |-> Conflict(store, emails),
                       submitted |-> r.submitted,
                       inserted |-> Len(r.store) - Len(store),
                       outcome |-> r.outcome]
           /\ UNCHANGED <<now, ragCache, normVars, ingestVars, authVars>>

\* The names gmail_fetch.py defines at module level (lines 17, 34, 57, 87,
\* 188), and the names streamlit_app.py imports from it (line 3).
GmailFetchNames ==
    {"extract_clean_text", "clean_email_text", "authenticate_gmail",
     "get_emails", "updated_chromadb"}

ShellImports == {"authenticate_gmail", "get_emails", "update_chromadb"}

\* `from gmail_fetch import ...` succeeds when every name is defined.
ImportsResolve == ShellImports \subseteq GmailFetchNames

Actions == {"Summarize", "Answer your query", "Update DB"}

\* What streamlit_app.py lines 66-89 do for the chosen action once the
\* imports are through: [store, cache, outcome, trace].
ShellBody(option, pressed, emails, strict, count_tokens, failures, span) ==
    IF ~pressed
    THEN [store |-> store, outcome |-> "done", trace |-> <<>>]
    ELSE IF option = "Update DB"
    THEN LET r == updated_chromadb(store, emails, strict)
         IN [store |-> r.store,
             outcome |-> IF r.outcome = "returned" THEN "done" ELSE r.outcome,
             trace |-> <<"authenticate_gmail", "get_emails", "update_chromadb">>]
    ELSE IF option = "Summarize"
    THEN LET r == summarize_emails(store, now, span, count_tokens, failures)
         IN [store |-> store,
             outcome |-> IF r.outcome # "returned" THEN r.outcome
                         ELSE IF Unpack(r.ret).outcome # "returned"
                         THEN Unpack(r.ret).outcome
                         ELSE "done",
             trace |-> <<"summarize_emails">>]
    ELSE [store |-> store, outcome |-> "done", trace |-> <<"simple_rag">>]

\* One run of the Streamlit script for a user who is after `option`:
\* line 3 is executed before any widget is drawn.
ShellRun ==
    \E option \in Actions, pressed \in BOOLEAN :
      \E emails \in IF ImportsResolve THEN EmailLists ELSE {<<>>} :
        \E r \in {IF ImportsResolve
                  THEN ShellBody(option, pressed, emails, FALSE, FALSE, 0, 0)
                  ELSE [store |-> store, outcome |-> "ImportError",
                        trace |-> <<>>]} :
           /\ store' = r.store
           /\ last' = [op |-> "shell", option |-> option, pressed |-> pressed,
                       outcome |-> r.outcome, trace |-> r.trace]
           /\ UNCHANGED <<now, ragCache, normVars, ingestVars, authVars>>

Next == Upsert \/ ShellRun

Spec == Init /\ [][Next]_vars

UniqueIds(st) ==
    \A i, j \in 1..Len(st) : st[i].id = st[j].id => i = j

\* C1: the store holds at most one document per message id, whatever lists
\* were upserted (ids already stored, ids repeated within a list); and an
\* upsert whose records' ids are all stored submits nothing for insertion
\* and inserts nothing.
C1_OneDocumentPerId ==
    /\ UniqueIds(store)
    /\ (last.op = "upsert" /\ last.all_known)
        => (last.submitted = 0 /\ last.inserted = 0)

\* An upsert of records whose ids were all stored, one of them with other
\* content than the stored document, has run and inserted nothing.
C1_Witness ==
    /\ last.op = "upsert"
    /\ last.all_known
    /\ last.conflict
    /\ last.outcome = "returned"
    /\ last.inserted = 0
    /\ Len(store) >= 1

\* C8: a step never changes or removes a stored document: each document of
\* the store is in the store afterwards, at the same place, with the same
\* text and metadata, whatever the incoming record with its id carries.
C8_StoredDocumentsUntouched ==
    [][/\ Len(store') >= Len(store)
       /\ \A i \in 1..Len(store) : store'[i] = store[i]]_vars

\* An upsert has run in which an incoming record carried a stored id with
\* another body or other metadata.
C8_Witness ==
    /\ last.op = "upsert"
    /\ last.conflict
    /\ last.outcome = "returned"

\* C9: a run of the script for a user who selects "Update DB" and presses
\* the button gets through its imports (the upsert it names is one the
\* ingestor module defines), runs authentication, the fetch and the upsert
\* in this order, and completes.
C9_UpdateDbRuns ==
    (last.op = "shell" /\ last.option = "Update DB" /\ last.pressed)
        => /\ last.outcome = "done"
           /\ last.trace = <<"authenticate_gmail", "get_emails", "update_chromadb">>

(***************************************************************************)
(* SpecTalk: summarize_emails and simple_rag over a store that earlier     *)
(* runs left on disk, at some time of some day.                            *)
(***************************************************************************)
\* The document of message i as an earlier upsert stored it, dated day d.
Stored(i, d) ==
    StoredDocument([id |-> i, subject |-> "s", from |-> "f",
                    body |-> IF i % 2 = 1 THEN "b1" ELSE "b2",
                    date |-> strftime(d)])

\* Stores of up to MaxIds documents with distinct ids.
TalkStores ==
    UNION {{[i \in 1..n |-> Stored(i, days[i])] : days \in [1..n -> Days]} :
            n \in 0..MaxIds}

\* The clock runs from midnight of day 0 to midnight of the day after the
\* last.
Clock == 0..(2 * MaxDay + 2)

MaxSpan == 1

\* Values of the "Span of days" slider.
Spans == 0..MaxSpan

\* Values of the "Number of documents for RAG" slider: its minimum and its
\* default (streamlit_app.py lines 40 and 42).
NResults == {0, 2}

Queries == {"q"}

InitTalk ==
    /\ store \in TalkStores
    /\ now \in Clock
    /\ ragCache = {}
    /\ last = Idle
    /\ nInput = <<>> /\ nText = <<>> /\ nPrev = <<>> /\ nPasses = 0
    /\ mailbox = <<>> /\ email_data = <<>>
    /\ tokenFile = "absent" /\ frames = <<>> /\ authLog = <<>>
    /\ authResult = "none"
    /\ authEnv = [credentials_json |-> TRUE, revoked |-> FALSE]

\* How many stored documents are dated on or after clock minus span days.
OnOrAfterCutoff(st, clock, span) ==
    Cardinality({i \in 1..Len(st) :
        \E d \in Days : /\ st[i].metadata.date = strftime(d)
                        /\ 2 * d + 2 * span >= clock})

\* A call of summarize_emails.
Summarize ==
    \E span \in Spans, count_tokens \in BOOLEAN, failures \in 0..MaxFailures :
      \E r \in {summarize_emails(store, now, span, count_tokens, failures)} :
        /\ last' = [op |-> "summarize",
                    qualifying |-> OnOrAfterCutoff(store, now, span),
                    failures |-> IF r.calls > 0 THEN failures ELSE 0,
                    outcome |-> r.outcome, ret |-> r.ret,
                    calls |-> r.calls, sleeps |-> r.sleeps]
        /\ UNCHANGED <<store, now, ragCache, normVars, ingestVars, authVars>>

\* A call of simple_rag that st.cache_data answers from its cache (line 84).
RagCached ==
    \E query \in Queries, count_tokens \in BOOLEAN, n_results \in NResults :
      \E c \in ragCache :
        /\ c.key = <<query, count_tokens, n_results>>
        /\ last' = [op |-> "rag", hit |-> TRUE, retrieved |-> -1,
                    failures |-> 0, outcome |-> "returned", ret |-> c.ret,
                    calls |-> 0, sleeps |-> 0]
        /\ UNCHANGED <<store, now, ragCache, normVars, ingestVars, authVars>>

\* A call of simple_rag whose collection.query refuses n_results = 0 (some
\* versions of the store library do; the others return no documents).
RagQueryRefused ==
    \E query \in Queries, count_tokens \in BOOLEAN :
        /\ \A c \in ragCache : c.key # <<query, count_tokens, 0>>
        /\ 0 \in NResults
        /\ last' = [op |-> "rag", hit |-> FALSE, retrieved |-> -1,
                    failures |-> 0, outcome |-> "QueryError", ret |-> None,
                    calls |-> 0, sleeps |-> 0]
        /\ UNCHANGED <<store, now, ragCache, normVars, ingestVars, authVars>>

\* A call of simple_rag that runs its body, lines 105-124.
Rag ==
    \E query \in Queries, count_tokens \in BOOLEAN, n_results \in NResults,
       failures \in 0..MaxFailures :
      \E order \in Neighbours(store, Min(n_results, Len(store))) :
        \E r \in {rag_body(query,
                           [i \in 1..Len(order) |-> store[order[i]].document],
                           count_tokens, failures)} :
          /\ \A c \in ragCache : c.key # <<query, count_tokens, n_results>>
          /\ last' = [op |-> "rag", hit |-> FALSE, retrieved |-> Len(order),
                      failures |-> failures, outcome |-> r.outcome,
                      ret |-> r.ret, calls |-> r.calls, sleeps |-> r.sleeps]
          /\ ragCache' =
                IF r.outcome = "returned"
                THEN ragCache \cup
                        {[key |-> <<query, count_tokens, n_results>>,
                          ret |-> r.ret]}
                ELSE ragCache
          /\ UNCHANGED <<store, now, normVars, ingestVars, authVars>>

NextTalk == Summarize \/ RagCached \/ RagQueryRefused \/ Rag

SpecTalk == InitTalk /\ [][NextTalk]_vars

\* C3: when the hosted model call raises, the gateway sleeps and calls it
\* again; after any number of failures followed by a success the operation
\* that called the gateway gets the generated text, with one model call
\* more than, and as many sleeps as, there were failures.
C3_RetryUntilSuccess ==
    (last.op \in {"summarize", "rag"} /\ last.calls >= 1)
        => /\ last.outcome = "returned"
           /\ last.ret.type = "tuple" /\ last.ret.items[1] = ResponseText
           /\ last.calls = last.failures + 1
           /\ last.sleeps = last.failures

\* C4: a Summarize with no stored document dated on or after the cutoff
\* (the empty store included) returns the fixed message and calls the
\* hosted model not once.
C4_NothingToSummarize ==
    (last.op = "summarize" /\ last.qualifying = 0)
        => /\ last.outcome = "returned"
           /\ last.ret.type = "str" /\ last.ret = NothingMsg
           /\ last.calls = 0

\* Summarize has run over a store that holds documents, all of them dated
\* before the cutoff.
C4_Witness ==
    /\ last.op = "summarize"
    /\ last.qualifying = 0
    /\ Len(store) >= 1
    /\ last.ret = NothingMsg
    /\ last.calls = 0

\* C5 (as claimed): when the store query of simple_rag returns no documents,
\* a plain message is returned and the hosted model is not called.
C5_EmptyRetrievalNoModelCall ==
    (last.op = "rag" /\ last.retrieved = 0)
        => /\ last.calls = 0
           /\ last.outcome = "returned"
           /\ last.ret.type = "str"

\* C5 (amended): when the store query of simple_rag returns no documents,
\* the gateway is called all the same, with a prompt whose documents part
\* is empty; what comes back, if the call succeeds, is the pair with the
\* model's text, never a plain message.
C5_EmptyRetrievalStillCallsModel ==
    (last.op = "rag" /\ last.retrieved = 0)
        => /\ last.calls >= 1
           /\ last.outcome = "returned"
                => (last.ret.type = "tuple" /\ last.ret.items[1] = ResponseText)

\* simple_rag has run over the empty store, got no documents, called the
\* model and returned its text.
C5_Witness ==
    /\ last.op = "rag"
    /\ last.retrieved = 0
    /\ store = <<>>
    /\ last.calls = 1
    /\ last.outcome = "returned"
    /\ last.ret.items[1] = ResponseText

\* C10: whenever summarize_emails returns, it returns a pair, so that the
\* shell's `response, num_tokens = ...` succeeds and the response is the
\* whole text.
C10_SummarizeReturnsPair ==
    (last.op = "summarize" /\ last.outcome = "returned")
        => /\ last.ret.type = "tuple"
           /\ Len(last.ret.items) = 2
           /\ Unpack(last.ret).outcome = "returned"
           /\ Unpack(last.ret).response \in {ResponseText, NothingMsg}

====
